---------------------------- MODULE Spec2Model ----------------------------
(***************************************************************************)
(* app_config.h of the AD9361 driver as a state machine.                   *)
(*                                                                         *)
(* The header is a preprocessor program.  What it is asked for (the        *)
(* "requested" options) is the set of #define lines it carries, each       *)
(* either live or commented out (value macros carry 0 or 1), together with *)
(* the one macro it tests and never defines, WINDOWS_PLATFORM, which a     *)
(* translation unit supplies before the #include.  What it answers (the    *)
(* "effective configuration") is the macro table of the translation unit   *)
(* once the #include is complete.                                          *)
(*                                                                         *)
(* Each translation unit walks the header block by block; several units    *)
(* are compiled side by side, and a unit may include the header again.     *)
(***************************************************************************)
EXTENDS Naturals, FiniteSets

(* Number of translation units that include the header. *)
NumUnits == 2

(* How many times one translation unit includes the header. *)
MaxIncludes == 2

Units == 1 .. NumUnits

(***************************************************************************)
(* Macro names and macro values                                            *)
(***************************************************************************)

(* Macros the header defines with a value: lines 43, 44, 46, 47, 48. *)
ValueMacros ==
  {"HAVE_SPLIT_GAIN_TABLE", "HAVE_TDD_SYNTH_TABLE",
   "AD9361_DEVICE", "AD9364_DEVICE", "AD9363A_DEVICE"}

(* Macros the header defines with an empty body, live or commented out:
   lines 52-54, 56-58, 61-65, 67, 70, 71. *)
FlagMacros ==
  {"XILINX_PLATFORM", "ALTERA_PLATFORM", "LINUX_PLATFORM",
   "FMCOMMS5", "ADI_RF_SOM", "ADI_RF_SOM_CMOS",
   "ADC_DMA_EXAMPLE", "DAC_DMA_EXAMPLE", "ADC_DMA_IRQ_EXAMPLE",
   "AXI_ADC_NOT_PRESENT", "TDD_SWITCH_STATE_EXAMPLE",
   "IIO_SUPPORT", "HAVE_VERBOSE_MESSAGES", "HAVE_DEBUG_MESSAGES"}

(* Every name a #define line of the header carries. *)
DeclNames == ValueMacros \cup FlagMacros

(* Every macro the header mentions: the declared ones, the include guard
   (lines 39, 40) and the macro tested on line 51. *)
MacroNames == DeclNames \cup {"CONFIG_H_", "WINDOWS_PLATFORM"}

(* "undef": no definition; "def": defined with an empty body;
   "0", "1": defined with that replacement text. *)
MacroValues == {"undef", "def", "0", "1"}

DeviceMacros == {"AD9361_DEVICE", "AD9364_DEVICE", "AD9363A_DEVICE"}

PlatformMacros ==
  {"WINDOWS_PLATFORM", "XILINX_PLATFORM", "ALTERA_PLATFORM", "LINUX_PLATFORM"}

AdcModeMacros == {"ADC_DMA_EXAMPLE", "ADC_DMA_IRQ_EXAMPLE", "AXI_ADC_NOT_PRESENT"}

BoardMacros == {"FMCOMMS5", "ADI_RF_SOM", "ADI_RF_SOM_CMOS"}

(* The option names the specification lists as its input surface. *)
RecognizedOptions == MacroNames \ (BoardMacros \cup {"CONFIG_H_"})

(* The header as it stands in the repository. *)
app_config ==
  [n \in DeclNames |->
     CASE n = "HAVE_SPLIT_GAIN_TABLE"    -> "0"
       [] n = "HAVE_TDD_SYNTH_TABLE"     -> "0"
       [] n = "AD9361_DEVICE"            -> "1"
       [] n = "AD9364_DEVICE"            -> "0"
       [] n = "AD9363A_DEVICE"           -> "0"
       [] n = "XILINX_PLATFORM"          -> "def"
       [] n = "ADC_DMA_EXAMPLE"          -> "def"
       [] n = "HAVE_VERBOSE_MESSAGES"    -> "def"
       [] OTHER                          -> "undef"]

(* The value a declaration line gives its macro when switched on / off:
   a value macro reads 1 / 0, a flag macro is live / commented out. *)
On(n)  == IF n \in ValueMacros THEN "1" ELSE "def"
Off(n) == IF n \in ValueMacros THEN "0" ELSE "undef"

(* The headers that differ from app_config only in the lines of S. *)
Vary(S) ==
  { [n \in DeclNames |->
       IF n \in S THEN (IF n \in T THEN On(n) ELSE Off(n)) ELSE app_config[n]]
    : T \in SUBSET S }

(***************************************************************************)
(* State                                                                   *)
(***************************************************************************)
VARIABLES
  header,    \* the #define lines of the header: DeclNames -> MacroValues
  env,       \* env[u]: WINDOWS_PLATFORM is defined before unit u's #include
  macros,    \* macros[u]: the macro table of unit u
  pc,        \* pc[u]: the block of the header unit u is about to process
  includes   \* includes[u]: completed #includes of the header in unit u

vars == <<header, env, macros, pc, includes>>

(* The macro table of a unit before its first #include. *)
Predefined(w) ==
  [n \in MacroNames |-> IF n = "WINDOWS_PLATFORM" /\ w THEN "def" ELSE "undef"]

(***************************************************************************)
(* Preprocessor primitives                                                 *)
(***************************************************************************)

(* #ifdef / #ifndef test. *)
IsDefined(m, n) == m[n] # "undef"

(* One declaration line: "#define n v", or a comment when v = "undef". *)
Define(m, n, v) == IF v = "undef" THEN m ELSE [m EXCEPT ![n] = v]

(***************************************************************************)
(* The blocks of the header, as functions on the macro table               *)
(***************************************************************************)

(* Lines 43-44. *)
GainTableBlock(m, h) ==
  Define(Define(m, "HAVE_SPLIT_GAIN_TABLE", h["HAVE_SPLIT_GAIN_TABLE"]),
         "HAVE_TDD_SYNTH_TABLE", h["HAVE_TDD_SYNTH_TABLE"])

(* Variant of DeviceBlock that keeps only the first device variant declared
   true and clears the others. *)
DeviceBlockOneHot(m, h) ==
  LET first == IF h["AD9361_DEVICE"] = "1" THEN "AD9361_DEVICE"
               ELSE IF h["AD9364_DEVICE"] = "1" THEN "AD9364_DEVICE"
               ELSE "AD9363A_DEVICE"
  IN  [n \in MacroNames |->
         IF n \in DeviceMacros THEN (IF n = first THEN "1" ELSE "0") ELSE m[n]]

(* Lines 46-48: three unconditional #define lines. *)
DeviceBlock(m, h) ==
  Define(Define(Define(m, "AD9361_DEVICE", h["AD9361_DEVICE"]),
                "AD9364_DEVICE", h["AD9364_DEVICE"]),
         "AD9363A_DEVICE", h["AD9363A_DEVICE"])

(* Variant of PlatformBlock with #ifdef in place of the #ifndef of line 51. *)
PlatformBlockIfdef(m, h) ==
  IF IsDefined(m, "WINDOWS_PLATFORM")
  THEN Define(Define(Define(m, "XILINX_PLATFORM", h["XILINX_PLATFORM"]),
                     "ALTERA_PLATFORM", h["ALTERA_PLATFORM"]),
              "LINUX_PLATFORM", h["LINUX_PLATFORM"])
  ELSE m

(* Variant of PlatformBlock without the guard of lines 51 and 55. *)
PlatformBlockUnguarded(m, h) ==
  Define(Define(Define(m, "XILINX_PLATFORM", h["XILINX_PLATFORM"]),
                "ALTERA_PLATFORM", h["ALTERA_PLATFORM"]),
         "LINUX_PLATFORM", h["LINUX_PLATFORM"])

(* Lines 51-55: the platform lines, skipped when WINDOWS_PLATFORM is defined. *)
PlatformBlock(m, h) ==
  IF IsDefined(m, "WINDOWS_PLATFORM")
  THEN m
  ELSE Define(Define(Define(m, "XILINX_PLATFORM", h["XILINX_PLATFORM"]),
                     "ALTERA_PLATFORM", h["ALTERA_PLATFORM"]),
              "LINUX_PLATFORM", h["LINUX_PLATFORM"])

(* Variant of BoardBlock that ignores the board lines. *)
BoardBlockDropped(m, h) == m

(* Lines 56-58: FMCOMMS5, ADI_RF_SOM, ADI_RF_SOM_CMOS, outside any guard. *)
BoardBlock(m, h) ==
  Define(Define(Define(m, "FMCOMMS5", h["FMCOMMS5"]),
                "ADI_RF_SOM", h["ADI_RF_SOM"]),
         "ADI_RF_SOM_CMOS", h["ADI_RF_SOM_CMOS"])

(* Variant of FeatureBlock that falls back to ADC_DMA_EXAMPLE when no ADC
   transfer mode line is live. *)
FeatureBlockPollingDefault(m, h) ==
  LET d == Define(Define(Define(Define(Define(m,
                 "ADC_DMA_EXAMPLE", h["ADC_DMA_EXAMPLE"]),
                 "DAC_DMA_EXAMPLE", h["DAC_DMA_EXAMPLE"]),
                 "ADC_DMA_IRQ_EXAMPLE", h["ADC_DMA_IRQ_EXAMPLE"]),
                 "AXI_ADC_NOT_PRESENT", h["AXI_ADC_NOT_PRESENT"]),
                 "TDD_SWITCH_STATE_EXAMPLE", h["TDD_SWITCH_STATE_EXAMPLE"])
  IN  IF \A n \in AdcModeMacros : ~IsDefined(d, n)
      THEN Define(d, "ADC_DMA_EXAMPLE", "def")
      ELSE d

(* Lines 61-65: five independent #define lines. *)
FeatureBlock(m, h) ==
  Define(Define(Define(Define(Define(m,
         "ADC_DMA_EXAMPLE", h["ADC_DMA_EXAMPLE"]),
         "DAC_DMA_EXAMPLE", h["DAC_DMA_EXAMPLE"]),
         "ADC_DMA_IRQ_EXAMPLE", h["ADC_DMA_IRQ_EXAMPLE"]),
         "AXI_ADC_NOT_PRESENT", h["AXI_ADC_NOT_PRESENT"]),
         "TDD_SWITCH_STATE_EXAMPLE", h["TDD_SWITCH_STATE_EXAMPLE"])

(* Line 67. *)
IioBlock(m, h) == Define(m, "IIO_SUPPORT", h["IIO_SUPPORT"])

(* Variant of MessageBlock without the guard of lines 69 and 72. *)
MessageBlockUnguarded(m, h) ==
  Define(Define(m, "HAVE_VERBOSE_MESSAGES", h["HAVE_VERBOSE_MESSAGES"]),
         "HAVE_DEBUG_MESSAGES", h["HAVE_DEBUG_MESSAGES"])

(* Variant of MessageBlock with line 71 nested under HAVE_VERBOSE_MESSAGES. *)
MessageBlockNested(m, h) ==
  IF IsDefined(m, "IIO_SUPPORT")
  THEN m
  ELSE LET v == Define(m, "HAVE_VERBOSE_MESSAGES", h["HAVE_VERBOSE_MESSAGES"])
       IN  IF IsDefined(v, "HAVE_VERBOSE_MESSAGES")
           THEN Define(v, "HAVE_DEBUG_MESSAGES", h["HAVE_DEBUG_MESSAGES"])
           ELSE v

(* Variant of MessageBlock that defines HAVE_VERBOSE_MESSAGES whenever
   IIO_SUPPORT is not defined. *)
MessageBlockVerboseDefault(m, h) ==
  IF IsDefined(m, "IIO_SUPPORT")
  THEN m
  ELSE Define(Define(m, "HAVE_VERBOSE_MESSAGES", "def"),
              "HAVE_DEBUG_MESSAGES", h["HAVE_DEBUG_MESSAGES"])

(* Lines 69-72: the two message lines, side by side under #ifndef IIO_SUPPORT. *)
MessageBlock(m, h) ==
  IF IsDefined(m, "IIO_SUPPORT")
  THEN m
  ELSE Define(Define(m, "HAVE_VERBOSE_MESSAGES", h["HAVE_VERBOSE_MESSAGES"]),
              "HAVE_DEBUG_MESSAGES", h["HAVE_DEBUG_MESSAGES"])

(* The whole header applied to a macro table in one go. *)
Resolve(m, h) ==
  IF IsDefined(m, "CONFIG_H_")
  THEN m
  ELSE MessageBlock(IioBlock(FeatureBlock(BoardBlock(PlatformBlock(
         DeviceBlock(GainTableBlock(Define(m, "CONFIG_H_", "def"), h), h),
         h), h), h), h), h)

(***************************************************************************)
(* What the driver code reads from the macro table                         *)
(***************************************************************************)

(* "#if AD9361_DEVICE": the macro expands to a nonzero number. *)
isDeviceVariant(m, x) == m[x] = "1"

(* "#ifdef XILINX_PLATFORM". *)
isPlatform(m, p) == IsDefined(m, p)

(* "#if HAVE_SPLIT_GAIN_TABLE" for value macros, "#ifdef" for flag macros. *)
isFeatureEnabled(m, f) == IF f \in ValueMacros THEN m[f] = "1" ELSE IsDefined(m, f)

(* The same reading of a declaration line of the header. *)
Requested(h, n) == h[n] = On(n)

(***************************************************************************)
(* Actions: one per block of the header, per translation unit              *)
(***************************************************************************)

(* Unit u moves from one block to the next with macro table m. *)
Step(u, from, to, m) ==
  /\ pc[u] = from
  /\ pc' = [pc EXCEPT ![u] = to]
  /\ macros' = [macros EXCEPT ![u] = m]
  /\ UNCHANGED <<header, env, includes>>

(* Lines 39-40: #ifndef CONFIG_H_ / #define CONFIG_H_.  With the guard
   already defined the whole body is skipped up to the #endif of line 77. *)
IncludeGuard(u) ==
  \/ /\ IsDefined(macros[u], "CONFIG_H_")
     /\ Step(u, "guard", "endif", macros[u])
  \/ /\ ~IsDefined(macros[u], "CONFIG_H_")
     /\ Step(u, "guard", "gain", Define(macros[u], "CONFIG_H_", "def"))

GainTables(u) == Step(u, "gain", "device", GainTableBlock(macros[u], header))

DeviceSelect(u) == Step(u, "device", "platform", DeviceBlock(macros[u], header))

(* Variant of PlatformSelect that tests WINDOWS_PLATFORM in the macro tables
   of all units instead of its own. *)
PlatformSelectShared(u) ==
  Step(u, "platform", "board",
       IF \E v \in Units : IsDefined(macros[v], "WINDOWS_PLATFORM")
       THEN macros[u]
       ELSE PlatformBlockUnguarded(macros[u], header))

PlatformSelect(u) == Step(u, "platform", "board", PlatformBlock(macros[u], header))

BoardSelect(u) == Step(u, "board", "feature", BoardBlock(macros[u], header))

FeatureSelect(u) == Step(u, "feature", "iio", FeatureBlock(macros[u], header))

IioSelect(u) == Step(u, "iio", "message", IioBlock(macros[u], header))

(* Variant of MessageSelect that stops (as an #error would) when a message
   line is live while IIO_SUPPORT is defined. *)
MessageSelectStrict(u) ==
  /\ IsDefined(macros[u], "IIO_SUPPORT") =>
       /\ header["HAVE_VERBOSE_MESSAGES"] = "undef"
       /\ header["HAVE_DEBUG_MESSAGES"] = "undef"
  /\ Step(u, "message", "endif", MessageBlock(macros[u], header))

MessageSelect(u) == Step(u, "message", "endif", MessageBlock(macros[u], header))

(* Line 77: the #endif of the include guard; the #include is complete. *)
EndInclude(u) ==
  /\ pc[u] = "endif"
  /\ pc' = [pc EXCEPT ![u] = "done"]
  /\ includes' = [includes EXCEPT ![u] = @ + 1]
  /\ UNCHANGED <<header, env, macros>>

(* The unit includes the header once more. *)
Reinclude(u) ==
  /\ pc[u] = "done"
  /\ includes[u] < MaxIncludes
  /\ pc' = [pc EXCEPT ![u] = "guard"]
  /\ UNCHANGED <<header, env, macros, includes>>

UnitStep(u) ==
  \/ IncludeGuard(u)
  \/ GainTables(u)
  \/ DeviceSelect(u)
  \/ PlatformSelect(u)
  \/ BoardSelect(u)
  \/ FeatureSelect(u)
  \/ IioSelect(u)
  \/ MessageSelect(u)
  \/ EndInclude(u)
  \/ Reinclude(u)

Next == \E u \in Units : UnitStep(u)

(***************************************************************************)
(* Specifications: the same program, started on different sets of headers  *)
(***************************************************************************)

InitWith(H) ==
  /\ header \in H
  /\ env \in [Units -> BOOLEAN]
  /\ macros = [u \in Units |-> Predefined(env[u])]
  /\ pc = [u \in Units |-> "guard"]
  /\ includes = [u \in Units |-> 0]

(* The message and platform lines vary. *)
Init ==
  InitWith(Vary({"XILINX_PLATFORM", "IIO_SUPPORT",
                 "HAVE_VERBOSE_MESSAGES", "HAVE_DEBUG_MESSAGES"}))

Spec == Init /\ [][Next]_vars

(* The device and platform lines vary. *)
InitDevice ==
  InitWith(Vary(DeviceMacros \cup {"XILINX_PLATFORM", "ALTERA_PLATFORM"}))

SpecDevice == InitDevice /\ [][Next]_vars

(* The message lines and the toggles without a guard vary. *)
InitToggles ==
  InitWith(Vary({"IIO_SUPPORT", "HAVE_VERBOSE_MESSAGES", "HAVE_DEBUG_MESSAGES",
                 "HAVE_SPLIT_GAIN_TABLE", "DAC_DMA_EXAMPLE"}))

SpecToggles == InitToggles /\ [][Next]_vars

(* The ADC transfer mode lines vary. *)
InitAdc == InitWith(Vary(AdcModeMacros \cup {"DAC_DMA_EXAMPLE"}))

SpecAdc == InitAdc /\ [][Next]_vars

(* The board lines (FMCOMMS5, ADI_RF_SOM, ADI_RF_SOM_CMOS) vary. *)
InitBoard == InitWith(Vary(BoardMacros \cup {"IIO_SUPPORT"}))

SpecBoard == InitBoard /\ [][Next]_vars

TypeOK ==
  /\ header \in [DeclNames -> MacroValues]
  /\ env \in [Units -> BOOLEAN]
  /\ macros \in [Units -> [MacroNames -> MacroValues]]
  /\ pc \in [Units -> {"guard", "gain", "device", "platform", "board",
                       "feature", "iio", "message", "endif", "done"}]
  /\ includes \in [Units -> 0 .. MaxIncludes]

Done(u) == pc[u] = "done"

(***************************************************************************)
(* Vocabulary of the properties                                            *)
(***************************************************************************)

(* The macro table unit u started from. *)
Start(u) == Predefined(env[u])

ActiveDevices(m) == {x \in DeviceMacros : isDeviceVariant(m, x)}

ActivePlatforms(m) == {p \in PlatformMacros : isPlatform(m, p)}

ActiveAdcModes(m) == {a \in AdcModeMacros : isFeatureEnabled(m, a)}

(* What unit u asks for: the live lines of the header, and Windows when the
   unit defines WINDOWS_PLATFORM itself. *)
RequestedDevices == {x \in DeviceMacros : Requested(header, x)}

RequestedPlatforms(u) ==
  {p \in PlatformMacros \cap DeclNames : Requested(header, p)}
    \cup (IF env[u] THEN {"WINDOWS_PLATFORM"} ELSE {})

RequestedAdcModes == {a \in AdcModeMacros : Requested(header, a)}

(* The boolean toggles of the header. *)
Toggles ==
  {"HAVE_SPLIT_GAIN_TABLE", "HAVE_TDD_SYNTH_TABLE", "ADC_DMA_EXAMPLE",
   "DAC_DMA_EXAMPLE", "ADC_DMA_IRQ_EXAMPLE", "AXI_ADC_NOT_PRESENT",
   "TDD_SWITCH_STATE_EXAMPLE", "IIO_SUPPORT",
   "HAVE_VERBOSE_MESSAGES", "HAVE_DEBUG_MESSAGES"}

(* The toggles no guard of the header stands in front of. *)
FreeToggles ==
  {"HAVE_SPLIT_GAIN_TABLE", "HAVE_TDD_SYNTH_TABLE", "DAC_DMA_EXAMPLE",
   "TDD_SWITCH_STATE_EXAMPLE", "IIO_SUPPORT"}

(* The header with its board lines commented out. *)
WithoutBoards(h) == [n \in DeclNames |-> IF n \in BoardMacros THEN "undef" ELSE h[n]]

(***************************************************************************)
(* C1                                                                      *)
(***************************************************************************)

(* C1, as stated: every completed resolution has exactly one device variant
   true and exactly one platform true (the header has no #error line, so a
   resolution never ends in ExclusivityViolation and the other branch of the
   claim is never taken). *)
C1_ExactlyOneDeviceAndPlatform ==
  \A u \in Units :
    Done(u) =>
      /\ Cardinality(ActiveDevices(macros[u])) = 1
      /\ Cardinality(ActivePlatforms(macros[u])) = 1

(* C1, amended: a resolution always completes with each device variant at
   its declared value (two declared true are both true afterwards, none
   declared true leaves none); with WINDOWS_PLATFORM defined beforehand the
   only platform is Windows, otherwise the platforms are exactly the ones
   the header declares. *)
C1_DevicesAndPlatformsAsDeclared ==
  \A u \in Units :
    Done(u) =>
      /\ ActiveDevices(macros[u]) = RequestedDevices
      /\ env[u] => ActivePlatforms(macros[u]) = {"WINDOWS_PLATFORM"}
      /\ ~env[u] => ActivePlatforms(macros[u]) = RequestedPlatforms(u)

(* A completed resolution of a header that declares AD9361 and AD9364. *)
C1_Witness ==
  \E u \in Units :
    /\ Done(u)
    /\ {"AD9361_DEVICE", "AD9364_DEVICE"} \subseteq RequestedDevices
    /\ {"AD9361_DEVICE", "AD9364_DEVICE"} \subseteq ActiveDevices(macros[u])

(***************************************************************************)
(* C2                                                                      *)
(***************************************************************************)

(* C2: with IIO_SUPPORT requested, verbose and debug messages are both off
   in the completed configuration, whatever was requested for them. *)
C2_IioSilencesMessages ==
  \A u \in Units :
    Done(u) /\ Requested(header, "IIO_SUPPORT") =>
      /\ ~isFeatureEnabled(macros[u], "HAVE_VERBOSE_MESSAGES")
      /\ ~isFeatureEnabled(macros[u], "HAVE_DEBUG_MESSAGES")

(* IIO_SUPPORT, verbose and debug messages all requested, resolution done. *)
C2_Witness ==
  \E u \in Units :
    /\ Done(u)
    /\ Requested(header, "IIO_SUPPORT")
    /\ Requested(header, "HAVE_VERBOSE_MESSAGES")
    /\ Requested(header, "HAVE_DEBUG_MESSAGES")
    /\ ~isFeatureEnabled(macros[u], "HAVE_VERBOSE_MESSAGES")

(***************************************************************************)
(* C3                                                                      *)
(***************************************************************************)

(* C3, as stated: in a completed configuration debug messages are off
   whenever verbose messages are off. *)
C3_DebugNeedsVerbose ==
  \A u \in Units :
    Done(u) /\ ~isFeatureEnabled(macros[u], "HAVE_VERBOSE_MESSAGES") =>
      ~isFeatureEnabled(macros[u], "HAVE_DEBUG_MESSAGES")

(* C3, amended: debug messages are on in a completed configuration exactly
   when they were requested and IIO_SUPPORT was not; verbose messages being
   off does not turn them off. *)
C3_DebugNeedsOnlyNoIio ==
  \A u \in Units :
    Done(u) =>
      (isFeatureEnabled(macros[u], "HAVE_DEBUG_MESSAGES")
         <=> (Requested(header, "HAVE_DEBUG_MESSAGES")
                /\ ~Requested(header, "IIO_SUPPORT")))

(* Debug messages on with verbose messages off. *)
C3_Witness ==
  \E u \in Units :
    /\ Done(u)
    /\ ~Requested(header, "HAVE_VERBOSE_MESSAGES")
    /\ ~isFeatureEnabled(macros[u], "HAVE_VERBOSE_MESSAGES")
    /\ isFeatureEnabled(macros[u], "HAVE_DEBUG_MESSAGES")

(***************************************************************************)
(* C4                                                                      *)
(***************************************************************************)

(* C4, as stated: a completed configuration has exactly one ADC transfer
   mode on (no resolution ends in ExclusivityViolation). *)
C4_ExactlyOneAdcMode ==
  \A u \in Units : Done(u) => Cardinality(ActiveAdcModes(macros[u])) = 1

(* C4, amended: the three ADC transfer mode options are independent; each is
   on in the completed configuration exactly when the header declares it, so
   none or several may be on together. *)
C4_AdcModesAsDeclared ==
  \A u \in Units : Done(u) => ActiveAdcModes(macros[u]) = RequestedAdcModes

(* Completed resolutions with no ADC transfer mode, or with polling and
   interrupt mode together. *)
C4_Witness ==
  \E u \in Units :
    /\ Done(u)
    /\ \/ RequestedAdcModes = {} /\ ActiveAdcModes(macros[u]) = {}
       \/ /\ {"ADC_DMA_EXAMPLE", "ADC_DMA_IRQ_EXAMPLE"} \subseteq RequestedAdcModes
          /\ {"ADC_DMA_EXAMPLE", "ADC_DMA_IRQ_EXAMPLE"}
               \subseteq ActiveAdcModes(macros[u])

(***************************************************************************)
(* C5                                                                      *)
(***************************************************************************)

(* C5, as stated: a request that carries an option outside the recognized
   set never yields a configuration. *)
C5_UnknownOptionRejected ==
  \A u \in Units :
    (\E b \in BoardMacros : Requested(header, b)) => ~Done(u)

(* C5, amended: FMCOMMS5, ADI_RF_SOM and ADI_RF_SOM_CMOS are options of the
   header too; a request carrying one of them resolves like any other, the
   option is defined afterwards and every recognized option has the value
   it has without it. *)
C5_BoardOptionsAccepted ==
  \A u \in Units :
    Done(u) =>
      /\ \A b \in BoardMacros :
           IsDefined(macros[u], b) <=> Requested(header, b)
      /\ \A n \in RecognizedOptions :
           macros[u][n] = Resolve(Start(u), WithoutBoards(header))[n]

(* A completed resolution of a header with FMCOMMS5 live. *)
C5_Witness ==
  \E u \in Units :
    /\ Done(u)
    /\ Requested(header, "FMCOMMS5")
    /\ IsDefined(macros[u], "FMCOMMS5")

(***************************************************************************)
(* C6                                                                      *)
(***************************************************************************)

(* C6: the completed configuration of a unit is a function of its input (the
   header and the unit's own predefinition) alone, however the units
   interleave; two units with the same input end with equal configurations;
   and once a unit has completed an #include, no later step of any unit
   changes its configuration. *)
C6_PureAndStable ==
  /\ [](\A u \in Units : Done(u) => macros[u] = Resolve(Start(u), header))
  /\ [](\A u, v \in Units :
          Done(u) /\ Done(v) /\ env[u] = env[v] => macros[u] = macros[v])
  /\ [][\A u \in Units : includes[u] >= 1 => macros'[u] = macros[u]]_vars

(* Two units with the same input have both completed, one of them twice,
   while the header was being resolved. *)
C6_Witness ==
  \E u, v \in Units :
    /\ u # v
    /\ env[u] = env[v]
    /\ Done(u) /\ Done(v)
    /\ includes[u] >= 2
    /\ macros[u] = macros[v]

(***************************************************************************)
(* C7                                                                      *)
(***************************************************************************)

(* C7: a request with exactly one device variant, one platform and one ADC
   transfer mode is never refused: whatever IIO_SUPPORT, the message options
   and the other toggles ask for, the unit can always take its next step
   until the #include is complete. *)
C7_UnmetPrerequisiteIsNoError ==
  \A u \in Units :
    /\ Cardinality(RequestedDevices) = 1
    /\ Cardinality(RequestedPlatforms(u)) = 1
    /\ Cardinality(RequestedAdcModes) = 1
    /\ ~Done(u)
    => ENABLED UnitStep(u)

(* A completed resolution of a well-formed request whose message options
   were requested with IIO_SUPPORT on, i.e. with an unmet prerequisite. *)
C7_Witness ==
  \E u \in Units :
    /\ Cardinality(RequestedDevices) = 1
    /\ Cardinality(RequestedPlatforms(u)) = 1
    /\ Cardinality(RequestedAdcModes) = 1
    /\ Requested(header, "IIO_SUPPORT")
    /\ Requested(header, "HAVE_DEBUG_MESSAGES")
    /\ Done(u)
    /\ ~isFeatureEnabled(macros[u], "HAVE_DEBUG_MESSAGES")

(***************************************************************************)
(* C8                                                                      *)
(***************************************************************************)

(* C8: in a completed configuration a toggle that is on was requested on; a
   toggle without prerequisite has its requested value; verbose messages
   have their requested value when IIO_SUPPORT is off, and debug messages
   have theirs when IIO_SUPPORT is off and verbose messages are on. *)
C8_OnlyTurnedOff ==
  \A u \in Units :
    Done(u) =>
      /\ \A f \in Toggles :
           isFeatureEnabled(macros[u], f) => Requested(header, f)
      /\ \A f \in FreeToggles :
           isFeatureEnabled(macros[u], f) <=> Requested(header, f)
      /\ ~isFeatureEnabled(macros[u], "IIO_SUPPORT") =>
           (isFeatureEnabled(macros[u], "HAVE_VERBOSE_MESSAGES")
              <=> Requested(header, "HAVE_VERBOSE_MESSAGES"))
      /\ /\ ~isFeatureEnabled(macros[u], "IIO_SUPPORT")
         /\ isFeatureEnabled(macros[u], "HAVE_VERBOSE_MESSAGES")
         => (isFeatureEnabled(macros[u], "HAVE_DEBUG_MESSAGES")
               <=> Requested(header, "HAVE_DEBUG_MESSAGES"))

(* A completed configuration with a free toggle on, verbose messages not
   requested and off, and all prerequisites met. *)
C8_Witness ==
  \E u \in Units :
    /\ Done(u)
    /\ Requested(header, "DAC_DMA_EXAMPLE")
    /\ isFeatureEnabled(macros[u], "DAC_DMA_EXAMPLE")
    /\ ~Requested(header, "IIO_SUPPORT")
    /\ ~Requested(header, "HAVE_VERBOSE_MESSAGES")
    /\ ~isFeatureEnabled(macros[u], "HAVE_VERBOSE_MESSAGES")

(***************************************************************************)
(* C9                                                                      *)
(***************************************************************************)

(* C9: the header as it stands, included by a unit that does not define
   WINDOWS_PLATFORM, resolves to AD9361 on Xilinx with verbose messages on
   and debug messages off, and no other device variant or platform. *)
C9_ShippedConfiguration ==
  \A u \in Units :
    Done(u) /\ header = app_config /\ ~env[u] =>
      /\ ActiveDevices(macros[u]) = {"AD9361_DEVICE"}
      /\ ActivePlatforms(macros[u]) = {"XILINX_PLATFORM"}
      /\ isFeatureEnabled(macros[u], "HAVE_VERBOSE_MESSAGES")
      /\ ~isFeatureEnabled(macros[u], "HAVE_DEBUG_MESSAGES")

(* The header as it stands has been resolved. *)
C9_Witness ==
  \E u \in Units :
    /\ Done(u)
    /\ header = app_config
    /\ ~env[u]
    /\ isDeviceVariant(macros[u], "AD9361_DEVICE")

(***************************************************************************)
(* C10                                                                     *)
(***************************************************************************)

(* C10: with line 52 as it stands, XILINX_PLATFORM is defined after the
   #include exactly when WINDOWS_PLATFORM was not defined before it, and
   exactly one of the two is active. *)
C10_XilinxUnlessWindows ==
  \A u \in Units :
    Done(u) /\ Requested(header, "XILINX_PLATFORM") =>
      /\ isPlatform(macros[u], "XILINX_PLATFORM") <=> ~env[u]
      /\ isPlatform(macros[u], "WINDOWS_PLATFORM")
           <=> ~isPlatform(macros[u], "XILINX_PLATFORM")

(* A unit that defined WINDOWS_PLATFORM has completed the #include of a
   header whose line 52 is live, and XILINX_PLATFORM is not defined. *)
C10_Witness ==
  \E u \in Units :
    /\ Done(u)
    /\ env[u]
    /\ Requested(header, "XILINX_PLATFORM")
    /\ ~isPlatform(macros[u], "XILINX_PLATFORM")

=============================================================================
